---- MODULE Spec2Model ----
(***************************************************************************)
(* Receipt extractor (src/LLM.py): the batch loop behind the "read" button, *)
(* the memoized extraction call parse_with_llm and the PDF renderer with    *)
(* fallback pdf_to_images_robust.                                           *)
(*                                                                          *)
(* Byte buffers are abstract identifiers.  Buffer 0 stands for bytes that   *)
(* no image decoder accepts (a PDF, or a damaged image file); 1..NumBytes   *)
(* are valid JPEG buffers.  A rendered page image is identified with the    *)
(* buffer its JPEG encoding (image_obj.save(..., format='JPEG')) produces.  *)
(* The display labels of the six data columns are Korean strings in the     *)
(* source (lines 134-139); the model names each by the JSON key it is read  *)
(* from, since the module text is ASCII.                                    *)
(***************************************************************************)
EXTENDS Integers, Sequences, FiniteSets, TLC

MaxDocs == 2
MaxPages == 2
NumBytes == 2
MaxCalls == 2

VARIABLES uploaded_files, pc, i, images, page_idx, all_extracted_data,
          row_src, progress, errors, outcome, df_shown,
          cache, calls, first_ret, last_call, last_render

vars == <<uploaded_files, pc, i, images, page_idx, all_extracted_data,
          row_src, progress, errors, outcome, df_shown,
          cache, calls, first_ret, last_call, last_render>>

----------------------------------------------------------------------------
(* Data *)

ImageBytes == 1..NumBytes

Bytes == {0} \cup ImageBytes

Decodable(b) == b \in ImageBytes

\* An uploaded file name, split as os.path.splitext splits it.
Names == {[stem |-> "a", ext |-> ".PDF"], [stem |-> "b", ext |-> ".jpg"]}

FullName(n) == n.stem \o n.ext

\* str.lower() on the extensions the uploader accepts.
Lower(ext) == CASE ext = ".PDF" -> ".pdf"
                [] ext = ".JPG" -> ".jpg"
                [] OTHER -> ext

IsPdfName(n) == Lower(n.ext) = ".pdf"

\* The uploads: a file named as a PDF holds no image bytes; a file named
\* as an image holds an image, or bytes that are none.
UploadedFiles == {f \in [name : Names, data : Bytes] :
                    IsPdfName(f.name) => ~Decodable(f.data)}

Batches == UNION {[1..n -> UploadedFiles] : n \in 1..MaxDocs}

\* Lines 119 and 125.
IsPdf(f) == IsPdfName(f.name)

None == "None"

Keys == {"date_time", "company_name", "business_number", "address",
         "phone_number", "business_type"}

Columns == {"File Name"} \cup Keys

\* Python values a JSON text parses to: a dict carries its members.
Dict(m) == [type |-> "dict", members |-> m]

List == [type |-> "list", members |-> <<>>]

NoEntry == [type |-> "absent", members |-> <<>>]

NullRecord == Dict([k \in Keys |-> None])

\* A dict the model may answer with: one expected key, one unexpected key,
\* five expected keys omitted.
PartialDict == Dict(("company_name" :> "Acme") @@ ("total" :> "9000"))

\* Response text as a sequence of tokens.
FenceJson == [tok |-> "fence_json"]

Fence == [tok |-> "fence"]

Junk == [tok |-> "junk"]

Json(v) == [tok |-> "json", value |-> v]

Ok(v) == [raised |-> FALSE, value |-> v]

Raised == [raised |-> TRUE]

\* What model.generate_content / response.text can do on one call.
Responses == {Raised,
              Ok(<<Json(PartialDict), Junk>>),
              Ok(<<Json(PartialDict)>>),
              Ok(<<FenceJson, Json(NullRecord), Fence>>),
              Ok(<<Fence, Json(List), Fence>>)}

----------------------------------------------------------------------------
(* parse_with_llm *)

\* Line 66: re.sub deletes every opening (with or without the json tag)
\* and closing code-fence marker, with the whitespace next to it.
re_sub(text) == SelectSeq(text, LAMBDA t : t.tok \notin {"fence_json", "fence"})

\* json.loads: exactly one JSON value, or JSONDecodeError.
json_loads(text) == IF Len(text) = 1 /\ text[1].tok = "json"
                    THEN Ok(text[1].value)
                    ELSE Raised

\* The try body of parse_with_llm, lines 34-68.
parse_try(response) == IF response.raised THEN Raised
                       ELSE json_loads(re_sub(response.value))

\* Mutant: the handler catches the collaborator's errors only.
parse_with_llm_api_errors_only(response) ==
    IF response.raised THEN Ok(NullRecord) ELSE parse_try(response)

\* The undecorated function: try body, then except Exception -> six Nones.
parse_with_llm(response) == IF parse_try(response).raised THEN Ok(NullRecord)
                            ELSE parse_try(response)

\* Whether this response makes the extraction call fail.
ExtractionFails(response) == parse_try(response).raised

\* Mutant: returned failure records are not stored.
cache_store_successes_only(c, b, r) ==
    IF r.raised \/ r.value = NullRecord THEN c ELSE [c EXCEPT ![b] = r.value]

\* st.cache_data: a returned value is stored under the argument's bytes;
\* an exception is not.
cache_store(c, b, r) == IF r.raised THEN c ELSE [c EXCEPT ![b] = r.value]

\* The decorated call: a stored value is returned without running the body.
cached_call(b, response) == IF cache[b] # NoEntry THEN Ok(cache[b])
                            ELSE parse_with_llm(response)

Min(a, b) == IF a < b THEN a ELSE b

\* The record of one decorated call made for page src[2] of file src[1].
CallRecord(b, response, row, src) ==
    [made |-> TRUE, bytes |-> b, hit |-> cache[b] # NoEntry,
     failed |-> cache[b] = NoEntry /\ ExtractionFails(response),
     ret |-> cached_call(b, response), appended |-> ~row.raised, src |-> src]

\* Effect of one decorated call on the memo and its bookkeeping.
CallEffects(b, response) ==
    LET hit == cache[b] # NoEntry
        r == cached_call(b, response)
    IN /\ cache' = IF hit THEN cache ELSE cache_store(cache, b, r)
       /\ calls' = IF hit THEN calls
                   ELSE [calls EXCEPT ![b] = Min(@ + 1, MaxCalls)]
       /\ first_ret' = IF r.raised \/ first_ret[b] # NoEntry THEN first_ret
                       ELSE [first_ret EXCEPT ![b] = r.value]

----------------------------------------------------------------------------
(* Row construction *)

\* dict.get(k): the member, or None when the key is absent.
get(d, k) == IF k \in DOMAIN d.members THEN d.members[k] ELSE None

\* Mutant: the parsed dict is spread into the row.
RowSpread(label, parsed_info) ==
    [k \in {"File Name"} \cup DOMAIN parsed_info.members |->
        IF k = "File Name" THEN label ELSE parsed_info.members[k]]

\* The dict literal of lines 132-140 and 146-154.
Row(label, parsed_info) ==
    [k \in Columns |-> IF k = "File Name" THEN label ELSE get(parsed_info, k)]

\* Building the row raises AttributeError when parsed_info has no .get.
RowResult(label, r) == IF r.raised \/ r.value.type # "dict" THEN Raised
                       ELSE Ok(Row(label, r.value))

\* f"{uploaded_file.name} - Page {page_idx}"
PageLabel(f, p) == FullName(f.name) \o " - Page " \o ToString(p)

----------------------------------------------------------------------------
(* pdf_to_images_robust *)

\* The JPEG buffer of page p of the uploaded PDF: rendering the same bytes
\* gives the same image for the same page, and pages may coincide.
PageBytes(p) == ((p - 1) % NumBytes) + 1

PageSeqs == {[p \in 1..n |-> PageBytes(p)] : n \in 0..MaxPages}

\* convert_from_bytes: the pages in order, or an exception.
PrimaryOutcomes == {Raised} \cup {Ok(p) : p \in PageSeqs}

\* A PDF as PyMuPDF sees it: fitz.open may raise; page 0 is a page whose
\* get_pixmap / Image.open raises.
FitzDocs == {Raised} \cup
            {Ok([p \in 1..n |-> IF p = bad THEN 0 ELSE PageBytes(p)]) :
                n \in 0..MaxPages, bad \in 0..MaxPages}

\* Lines 91-97: open, then append each page's image in document order.
fitz_render(doc) == IF doc.raised THEN Raised
                    ELSE IF \E k \in 1..Len(doc.value) : doc.value[k] = 0
                         THEN Raised
                         ELSE Ok([k \in 1..Len(doc.value) |-> doc.value[k]])

\* Mutant: no fallback, the primary's error propagates.
pdf_to_images_no_fallback(primary, doc) ==
    [secondary_invoked |-> FALSE, result |-> primary]

\* Lines 86-97: the primary's pages, or on any exception the fallback's.
pdf_to_images_robust(primary, doc) ==
    IF ~primary.raised
    THEN [secondary_invoked |-> FALSE, result |-> primary]
    ELSE [secondary_invoked |-> TRUE, result |-> fitz_render(doc)]

\* Record of the latest pdf_to_images_robust call: what each backend had to
\* offer, whether the fallback ran, what the caller got.
NoRender == [seen |-> FALSE, primary |-> Raised, doc |-> Raised,
             secondary_invoked |-> FALSE, result |-> Raised]

\* Record of the latest parse_with_llm call of the loop.
NoCall == [made |-> FALSE, bytes |-> 0, hit |-> FALSE, failed |-> FALSE,
           ret |-> Raised, appended |-> FALSE, src |-> <<0, 0>>]

----------------------------------------------------------------------------
(* The program *)

\* The upload (line 111) is made once; the script has not run the loop yet.
Init ==
    /\ uploaded_files \in Batches
    /\ pc = "idle"
    /\ i = 0
    /\ images = <<>>
    /\ page_idx = 1
    /\ all_extracted_data = <<>>
    /\ row_src = <<>>
    /\ progress = <<>>
    /\ errors = {}
    /\ outcome = <<>>
    /\ df_shown = FALSE
    /\ cache = [b \in Bytes |-> NoEntry]
    /\ calls = [b \in Bytes |-> 0]
    /\ first_ret = [b \in Bytes |-> NoEntry]
    /\ last_call = NoCall
    /\ last_render = NoRender

T == Len(uploaded_files)

\* How the iteration for one file ended: "ok" (line 156 reached),
\* "render_error" (line 127 raised), "page_error" (lines 128-140 raised),
\* "crash" (lines 145-154 raised); n is the number of page images the file
\* gave, extracted whether parse_with_llm was called for it.
Outcome(status, n, extracted) ==
    [status |-> status, n |-> n, extracted |-> extracted]

\* The file of the current iteration (enumerate index i is 0-based).
File == uploaded_files[i + 1]

\* Lines 113-116: the button is offered for a non-empty upload, and may be
\* pressed again on the same files after a run has ended.
Click ==
    /\ pc \in {"idle", "done", "aborted"}
    /\ uploaded_files # <<>>
    /\ UNCHANGED uploaded_files
    /\ pc' = "loop"
    /\ i' = 0
    /\ images' = <<>>
    /\ page_idx' = 1
    /\ all_extracted_data' = <<>>
    /\ row_src' = <<>>
    /\ progress' = <<>>
    /\ errors' = {}
    /\ outcome' = <<>>
    /\ df_shown' = FALSE
    /\ last_call' = NoCall
    /\ last_render' = NoRender
    /\ UNCHANGED <<cache, calls, first_ret>>

\* Line 156.
Progress == Append(progress, <<i + 1, T>>)

\* Lines 144-156: the non-PDF branch, then the progress update.  An
\* exception here is not caught and ends the script run.
ProcessImage ==
    /\ pc = "loop" /\ i < T /\ ~IsPdf(File)
    /\ \E response \in Responses :
         LET b == File.data
             r == cached_call(b, response)
             row == RowResult(FullName(File.name), r)
         IN /\ CallEffects(b, response)
            /\ last_call' = CallRecord(b, response, row, <<i, 1>>)
            /\ IF row.raised
               THEN /\ pc' = "aborted"
                    /\ outcome' = Append(outcome, Outcome("crash", 1, TRUE))
                    /\ UNCHANGED <<i, all_extracted_data, row_src, progress>>
               ELSE /\ all_extracted_data' = Append(all_extracted_data, row.value)
                    /\ row_src' = Append(row_src, <<i, 1>>)
                    /\ outcome' = Append(outcome, Outcome("ok", 1, TRUE))
                    /\ progress' = Progress
                    /\ i' = i + 1
                    /\ pc' = "loop"
    /\ UNCHANGED <<uploaded_files, images, page_idx, errors, df_shown, last_render>>

\* Lines 141-143: report, then continue with the next file.
ExceptContinue(status, n, extracted) ==
    /\ errors' = errors \cup {i}
    /\ outcome' = Append(outcome, Outcome(status, n, extracted))
    /\ i' = i + 1
    /\ pc' = "loop"
    /\ UNCHANGED progress

\* Lines 125-127: the PDF branch up to the rendered page list.
RenderPdf ==
    /\ pc = "loop" /\ i < T /\ IsPdf(File)
    /\ \E primary \in PrimaryOutcomes :
       \E doc \in (IF primary.raised THEN FitzDocs ELSE {Raised}) :
         LET r == pdf_to_images_robust(primary, doc)
         IN /\ last_render' = [seen |-> TRUE, primary |-> primary, doc |-> doc,
                               secondary_invoked |-> r.secondary_invoked,
                               result |-> r.result]
            /\ IF r.result.raised
               THEN /\ ExceptContinue("render_error", 0, FALSE)
                    /\ UNCHANGED <<images, page_idx>>
               ELSE /\ images' = r.result.value
                    /\ page_idx' = 1
                    /\ pc' = "pages"
                    /\ UNCHANGED <<i, errors, outcome, progress>>
    /\ UNCHANGED <<uploaded_files, all_extracted_data, row_src, df_shown,
                   cache, calls, first_ret, last_call>>

\* Lines 128-140: one page of the PDF; any exception goes to lines 141-143.
ProcessPage ==
    /\ pc = "pages" /\ page_idx <= Len(images)
    /\ \E save_raises \in BOOLEAN :
       \E response \in (IF save_raises THEN {Raised} ELSE Responses) :
         LET b == images[page_idx]
             r == cached_call(b, response)
             row == RowResult(PageLabel(File, page_idx), r)
         IN IF save_raises
            THEN /\ ExceptContinue("page_error", Len(images), page_idx > 1)
                 /\ UNCHANGED <<cache, calls, first_ret, last_call,
                                all_extracted_data, row_src, page_idx>>
            ELSE /\ CallEffects(b, response)
                 /\ last_call' = CallRecord(b, response, row, <<i, page_idx>>)
                 /\ IF row.raised
                    THEN /\ ExceptContinue("page_error", Len(images), TRUE)
                         /\ UNCHANGED <<all_extracted_data, row_src, page_idx>>
                    ELSE /\ all_extracted_data' = Append(all_extracted_data, row.value)
                         /\ row_src' = Append(row_src, <<i, page_idx>>)
                         /\ page_idx' = page_idx + 1
                         /\ UNCHANGED <<pc, i, errors, outcome, progress>>
    /\ UNCHANGED <<uploaded_files, images, df_shown, last_render>>

\* Line 156 after the page loop of a PDF ran to its end.
EndPdf ==
    /\ pc = "pages" /\ page_idx > Len(images)
    /\ progress' = Progress
    /\ outcome' = Append(outcome, Outcome("ok", Len(images), Len(images) > 0))
    /\ i' = i + 1
    /\ pc' = "loop"
    /\ UNCHANGED <<uploaded_files, images, page_idx, all_extracted_data,
                   row_src, errors, df_shown, cache, calls, first_ret,
                   last_call, last_render>>

\* Lines 158-178: the loop is over; the table is shown when it has rows.
Finish ==
    /\ pc = "loop" /\ i = T
    /\ pc' = "done"
    /\ df_shown' = (all_extracted_data # <<>>)
    /\ UNCHANGED <<uploaded_files, i, images, page_idx, all_extracted_data,
                   row_src, progress, errors, outcome, cache, calls,
                   first_ret, last_call, last_render>>

Next == Click \/ ProcessImage \/ RenderPdf \/ ProcessPage \/ EndPdf \/ Finish

Spec == Init /\ [][Next]_vars

----------------------------------------------------------------------------
(* Properties *)

\* Positions of the table, in order.
Positions == [k \in 1..Len(row_src) |-> k]

\* The table positions holding rows of file j (0-based), in table order.
PositionsOf(j) == SelectSeq(Positions, LAMBDA k : row_src[k][1] = j)

\* The File Name labels of the rows of file j, in table order.
LabelsOf(j) == [k \in 1..Len(PositionsOf(j)) |->
                  all_extracted_data[PositionsOf(j)[k]]["File Name"]]

\* The labels the single/multi-page rule gives a file of n pages.
RuleLabels(f, n) == IF n = 1 THEN <<FullName(f.name)>>
                    ELSE [p \in 1..n |-> PageLabel(f, p)]

\* Whether the file's bytes can be turned into page images at all.
Renders(j) == IF IsPdf(uploaded_files[j])
              THEN outcome[j].status # "render_error"
              ELSE Decodable(uploaded_files[j].data)

Failed(j) == outcome[j].status \in {"render_error", "page_error"}

RECURSIVE RowsInOrder(_)
\* Files 1..j in input order, each file that went through contributing its
\* pages 1..n, each failed file nothing.
RowsInOrder(j) ==
    IF j = 0 THEN <<>>
    ELSE RowsInOrder(j - 1) \o
         (IF outcome[j].status = "ok"
          THEN [p \in 1..outcome[j].n |-> <<j - 1, p>>]
          ELSE <<>>)

LastRow == all_extracted_data[Len(all_extracted_data)]

\* C1: a document that renders to N pages and is handled without error has
\* exactly N rows, labelled with the bare name when N = 1 and with
\* "<name> - Page i", i = 1..N, when N > 1, whatever its extension.
C1_LabelsFollowPageCount ==
    \A j \in 1..Len(outcome) :
        (outcome[j].status = "ok" /\ Renders(j))
            => LabelsOf(j - 1) = RuleLabels(uploaded_files[j], outcome[j].n)

\* C2: once k documents have been handled, succeeded or failed, the progress
\* updates emitted so far are exactly (1, T), ..., (k, T); at the end of the
\* batch the last one is (T, T).
C2_ProgressAfterEveryDocument ==
    pc \in {"loop", "pages", "done"}
        => progress = [k \in 1..i |-> <<k, T>>]

\* C3: at the end of the batch a document whose processing failed has no row
\* in the table, and every other document has all of its rows.
C3_FailedDocumentLeavesNoRows ==
    pc = "done" =>
        \A j \in 1..Len(outcome) :
            /\ Failed(j) => Len(PositionsOf(j - 1)) = 0
            /\ ~Failed(j) => Len(PositionsOf(j - 1)) = outcome[j].n

\* C4: no failure of a page or a document, and no response of the
\* collaborator, ends the run before the loop is over.
C4_BatchNeverAborts == pc # "aborted"

\* C5: when the extraction call for a page fails (the collaborator raises, or
\* its text is not JSON), parse_with_llm returns instead of raising and the
\* page has its row, the last one of the table, with the six fields present
\* and null.
C5_FailedExtractionGivesNullRow ==
    (last_call.made /\ last_call.failed) =>
        /\ ~last_call.ret.raised
        /\ last_call.appended
        /\ Len(all_extracted_data) > 0
        /\ row_src[Len(row_src)] = last_call.src
        /\ Keys \subseteq DOMAIN LastRow
        /\ \A k \in Keys : LastRow[k] = None

C5_Witness ==
    /\ last_call.made /\ last_call.failed /\ last_call.appended
    /\ last_call.src = <<0, 2>>
    /\ Len(all_extracted_data) = 2

\* C6: for every byte buffer the collaborator is invoked at most once in the
\* life of the process, and every call with that buffer returns the record
\* the first call returned, the all-null failure record included.
C6_AtMostOneCallPerBuffer ==
    /\ \A b \in Bytes : calls[b] <= 1
    /\ last_call.made =>
         /\ ~last_call.ret.raised
         /\ last_call.ret.value = first_ret[last_call.bytes]

C6_Witness ==
    /\ last_call.made /\ last_call.hit
    /\ last_call.ret.value = NullRecord
    /\ calls[last_call.bytes] = 1

\* C7: at the end of the batch the rows are, in input order, pages 1..N of
\* every document that went through, and nothing of the failed ones.
C7_RowsAreTheConcatenationInOrder ==
    pc = "done" => row_src = RowsInOrder(Len(outcome))

\* C8: every row has exactly the seven columns; a key the collaborator's
\* object omits is null in the row, and a key it adds is in no row.
C8_RowsHaveExactlySevenColumns ==
    /\ Cardinality(Columns) = 7
    /\ \A k \in 1..Len(all_extracted_data) :
         DOMAIN all_extracted_data[k] = Columns
    /\ (last_call.made /\ last_call.appended) =>
         \A k \in Keys :
            LastRow[k] = IF k \in DOMAIN last_call.ret.value.members
                         THEN last_call.ret.value.members[k]
                         ELSE None

C8_Witness ==
    /\ last_call.made /\ last_call.appended
    /\ last_call.ret.value = PartialDict
    /\ LastRow["company_name"] = "Acme"
    /\ LastRow["address"] = None

\* C9: pdf_to_images_robust returns the primary backend's pages whenever it
\* succeeds and then leaves the secondary alone; the secondary runs exactly
\* when the primary raises, and its pages are returned in order; the call
\* raises only when both fail; no pages is a result, not an error.
C9_PrimaryThenFallback ==
    last_render.seen =>
        /\ last_render.secondary_invoked <=> last_render.primary.raised
        /\ ~last_render.primary.raised => last_render.result = last_render.primary
        /\ last_render.primary.raised =>
             last_render.result = fitz_render(last_render.doc)
        /\ last_render.result.raised <=>
             (last_render.primary.raised /\ fitz_render(last_render.doc).raised)
        /\ (~last_render.result.raised /\ pc = "pages") =>
             images = last_render.result.value

C9_Witness ==
    /\ last_render.seen /\ last_render.secondary_invoked
    /\ ~last_render.result.raised
    /\ Len(last_render.result.value) = MaxPages
    /\ images = last_render.result.value

\* C10: a file that is not a PDF and whose bytes are no image is reported as
\* a failed document: no row, an error against it, no extraction call.
C10_UndecodableImageIsARenderError ==
    \A j \in 1..Len(outcome) :
        (~IsPdf(uploaded_files[j]) /\ ~Decodable(uploaded_files[j].data)) =>
            /\ Len(PositionsOf(j - 1)) = 0
            /\ (j - 1) \in errors
            /\ ~outcome[j].extracted

====
